---- MODULE Spec2Model ----
(***************************************************************************)
(* The message-driven worker loops of sda-pipeline.                        *)
(*                                                                         *)
(* src/cmd/sync/sync.go holds three programs, each a main() whose worker   *)
(* goroutine ranges over the deliveries of one queue:                      *)
(*   "archive"  sync, archive-to-backup   (lines 1-304)                    *)
(*   "inbox"    sync, inbox-to-backup     (lines 306-539)                  *)
(*   "verify"   verify                    (lines 541-760)                  *)
(* A run of the model is a run of one of the three (variant is fixed by    *)
(* Init).  Every loop iteration is cut into the steps between two calls    *)
(* of a collaborator (broker, database, storage backend, crypt4gh); each   *)
(* step draws the collaborator's answer with \E and records the call in    *)
(* calls, the list of collaborator calls made for the delivery in hand.    *)
(* A branch that makes further calls before it ends the loop body (a Nack, *)
(* a publish to the error channel) makes them in steps of their own, kept  *)
(* in pending meanwhile, so that the watcher goroutine may end the process *)
(* between any two calls.                                                  *)
(***************************************************************************)
EXTENDS Integers, Sequences, FiniteSets, TLC

VARIABLES
    variant,        \* which of the three programs runs
    proc,           \* "running" | "exited" (os.Exit, log.Fatal) | "panicked"
    connLost,       \* the broker connection was lost (ConnectionWatcher returned)
    pc,             \* position of the worker goroutine in its loop
    count,          \* deliveries received so far
    delivered,      \* body of the delivery in hand
    message,        \* the decoded message struct (var message)
    calls,          \* collaborator calls made for the delivery in hand
    pending,        \* calls the branch in hand has yet to make before it
                    \* ends the loop body
    history,        \* how each earlier delivery was left (see Resolution)
    checksumSha256, \* var checksumSha256 string
    filePath,       \* filePath returned by GetArchived
    fileSize,       \* recorded size of the source file
    copiedSize,     \* bytes io.Copy transferred
    completeMsg,    \* the outbound message built for the delivery
    file,           \* the source reader: "nil" | "open" | "closed"
    dest,           \* the destination writer: "nil" | "open" | "closed"
    fileInfo,       \* verify: var file database.FileInfo
    source,         \* kind of the backend read from: "posix" | "s3"
    backup,         \* kind of the backend written to: "posix" | "s3"
    content,        \* verify: the bytes of the archived file body
    upload,         \* the upload goroutine of the S3 writer in hand:
                    \* "none" | "running" | "done" | "failed"
    orphans,        \* upload goroutines started for earlier deliveries
                    \* that have not returned yet
    record,         \* the FileRecord the database holds
    archiveFileHash, \* verify: the bytes fed to archiveFileHash
    location,       \* PosixBackend.Location, the configured root directory
    accessed        \* the last file system access of the PosixBackend

vars == <<variant, proc, connLost, pc, count, delivered, message, calls, pending,
          history, checksumSha256, filePath, fileSize, copiedSize,
          completeMsg, file, dest, fileInfo, source, backup, content,
          upload, record, archiveFileHash, orphans, location, accessed>>

(***************************************************************************)
(* Bounds.                                                                 *)
(***************************************************************************)
MaxDeliveries == 2
MaxSize == 1
\* the longest archived body the verify-worker is given
MaxBody == 2

Sizes == 0..MaxSize

(***************************************************************************)
(* Message bodies.  A body is a byte string that either parses as a JSON   *)
(* object (json = TRUE, obj = the object, a function from the keys present *)
(* to their values) or does not.                                           *)
(***************************************************************************)
Json(o) == [json |-> TRUE, obj |-> o]

Garbage == [json |-> FALSE, obj |-> [garbage |-> TRUE]]

NoBody == [json |-> FALSE, obj |-> [none |-> TRUE]]

Checksum(t, v) == [type |-> t, value |-> v]

SyncBodies ==
    { Json([type |-> "accession", user |-> "alice", filepath |-> "f.txt",
            accession_id |-> "EGAF001",
            decrypted_checksums |-> <<Checksum("sha256", "abc123")>>]),
      Json([user |-> "carol", filepath |-> "c.txt",
            accession_id |-> "EGAF004",
            decrypted_checksums |-> <<Checksum("md5", "m5"),
                                      Checksum("sha256", "cc44")>>]),
      Json([type |-> "accession", filepath |-> "h.txt",
            accession_id |-> "EGAF003",
            decrypted_checksums |-> <<Checksum("sha256", "aa11")>>]),
      Garbage }

VerifyBodies ==
    { Json([filepath |-> "f.txt", user |-> "alice", file_id |-> 1,
            archive_path |-> "a1",
            encrypted_checksums |-> <<Checksum("sha256", "e1")>>,
            re_verify |-> FALSE]),
      Json([filepath |-> "g.txt", user |-> "bob", file_id |-> 2,
            archive_path |-> "a2",
            encrypted_checksums |-> <<Checksum("sha256", "e2")>>,
            re_verify |-> TRUE]),
      Json([filepath |-> "h.txt", user |-> "carol",
            archive_path |-> "a3",
            encrypted_checksums |-> <<Checksum("sha256", "e3")>>,
            re_verify |-> FALSE]),
      Garbage }

(***************************************************************************)
(* The message structs and encoding/json.                                  *)
(***************************************************************************)
\* the zero value of type sync
ZeroSync ==
    [Type |-> "", User |-> "", Filepath |-> "", AccessionID |-> "",
     DecryptedChecksums |-> <<>>]

\* the zero value of type message (verify)
ZeroMessage ==
    [FilePath |-> "", User |-> "", FileID |-> 0, ArchivePath |-> "",
     EncryptedChecksums |-> <<>>, ReVerify |-> FALSE]

Field(o, key, old) == IF key \in DOMAIN o THEN o[key] ELSE old

\* json.Unmarshal(body, &message) for type sync: a key of the object sets
\* its field, a field whose key is absent keeps the value it had
UnmarshalSync(o, m) ==
    [Type               |-> Field(o, "type", m.Type),
     User               |-> Field(o, "user", m.User),
     Filepath           |-> Field(o, "filepath", m.Filepath),
     AccessionID        |-> Field(o, "accession_id", m.AccessionID),
     DecryptedChecksums |-> Field(o, "decrypted_checksums", m.DecryptedChecksums)]

\* json.Unmarshal(body, &message) for type message (verify)
UnmarshalMessage(o, m) ==
    [FilePath           |-> Field(o, "filepath", m.FilePath),
     User               |-> Field(o, "user", m.User),
     FileID             |-> Field(o, "file_id", m.FileID),
     ArchivePath        |-> Field(o, "archive_path", m.ArchivePath),
     EncryptedChecksums |-> Field(o, "encrypted_checksums", m.EncryptedChecksums),
     ReVerify           |-> Field(o, "re_verify", m.ReVerify)]

\* the completion message with the accession id taken from the wrong field
MarshalCompleted_WrongAccession(m) ==
    Json([user |-> m.User, filepath |-> m.Filepath,
          accession_id |-> m.Filepath,
          decrypted_checksums |-> m.DecryptedChecksums])

\* lines 435-442: c := completed{...}; json.Marshal(&c)
MarshalCompleted(m) ==
    Json([user |-> m.User, filepath |-> m.Filepath,
          accession_id |-> m.AccessionID,
          decrypted_checksums |-> m.DecryptedChecksums])

\* the loop "for _, checksum := range message.DecryptedChecksums": the value
\* of the last entry of type sha256, "" when there is none
RECURSIVE Sha256Of(_)
Sha256Of(cs) ==
    IF cs = <<>> THEN ""
    ELSE IF cs[Len(cs)].type = "sha256" THEN cs[Len(cs)].value
         ELSE Sha256Of(SubSeq(cs, 1, Len(cs) - 1))

(***************************************************************************)
(* JSON schemas.  The schema documents are not part of the sources; a      *)
(* schema is taken to require the keys of the message shape it names.      *)
(***************************************************************************)
Required(schema) ==
    CASE schema = "ingestion-accession" ->
            {"type", "user", "filepath", "accession_id", "decrypted_checksums"}
      [] schema = "ingestion-completion" ->
            {"user", "filepath", "accession_id", "decrypted_checksums"}
      [] schema = "ingestion-verification" ->
            {"filepath", "user", "file_id", "archive_path",
             "encrypted_checksums", "re_verify"}
      [] schema = "ingestion-accession-request" ->
            {"user", "filepath", "decrypted_checksums"}

SchemaValid(schema, o) == Required(schema) \subseteq DOMAIN o

\* mq.ValidateJSON's verdict on a body (internal/broker, not in the sources):
\* "valid" or "invalid"
BrokerVerdict(schema, body) ==
    IF body.json /\ SchemaValid(schema, body.obj) THEN "valid" ELSE "invalid"

\* func validateJSON(schemasPath, body) of the inbox-to-backup sync: "err"
\* when the body does not parse or the schema cannot be loaded, else the
\* verdict of the schema picked by the presence of the key "type"
validateJSON(body, schemaLoads) ==
    IF ~body.json THEN "err"
    ELSE IF ~schemaLoads THEN "err"
    ELSE IF SchemaValid(IF "type" \in DOMAIN body.obj
                        THEN "ingestion-accession"
                        ELSE "ingestion-completion", body.obj)
         THEN "valid" ELSE "invalid"

(***************************************************************************)
(* Collaborator calls, as recorded in calls.                               *)
(***************************************************************************)
Call(op, res) ==
    [op |-> op, requeue |-> FALSE, key |-> "", body |-> NoBody, res |-> res]

\* delivered.Nack(false, requeue)
Nack(requeue) == [Call("Nack", "ok") EXCEPT !.requeue = requeue]

\* delivered.Ack(false)
Ack == Call("Ack", "ok")

\* mq.SendJSONError(&delivered, reason, conf.Broker): the error channel
SendJSONError == Call("SendJSONError", "ok")

\* mq.SendMessage(corrID, exchange, key, durable, body), res its result
SendMessage(key, body, res) ==
    [Call("SendMessage", res) EXCEPT !.key = key, !.body = body]

Results == {"ok", "error"}

IsResolve(c) == c.op \in {"Ack", "Nack"}

\* how a delivery was left: its Ack and Nack calls, in order
Resolution(cs) == SelectSeq(cs, IsResolve)

(***************************************************************************)
(* Initial state: the state of main() when the worker goroutine reaches    *)
(* its range loop for the first time.                                      *)
(***************************************************************************)
Variants == {"archive", "inbox", "verify"}

\* the zero value of database.FileInfo (line 658); Checksum and
\* DecryptedChecksum are hash.Hash values, held as the bytes written to them
ZeroFileInfo ==
    [Size |-> 0, Checksum |-> <<>>, DecryptedSize |-> 0,
     DecryptedChecksum |-> <<>>]

\* storage.NewBackend(conf): the two implementations of Backend
Kinds == {"posix", "s3"}

Bytes == {0, 1}

\* the byte strings an archived file body may hold
Contents == UNION {[1..n -> Bytes] : n \in 0..MaxBody}

\* the lifecycle statuses of a FileRecord, in order
Rank(status) ==
    CASE status = "REGISTERED" -> 0
      [] status = "ARCHIVED"   -> 1
      [] status = "COMPLETED"  -> 2
      [] status = "READY"      -> 3

\* a status update moves the record forward or leaves it where it is
Forward(old, new) == IF Rank(new) > Rank(old) THEN new ELSE old

\* the digest of the bytes written to a hash of algorithm alg
Sum(alg, written) == [alg |-> alg, of |-> written]

NoSum == [alg |-> "", of |-> <<>>]

\* fmt.Sprintf("%x", sum): two hexadecimal digits for each byte
Hex(sum) ==
    <<sum.alg>> \o [i \in 1..Len(sum.of) |->
                       IF sum.of[i] = 0 THEN "00" ELSE "01"]

\* the model follows the FileRecord of one file: file_id 1, uploaded by
\* alice as f.txt
TrackedFileID == 1

\* the FileRecord of a file that was archived and awaits verification
InitialRecord ==
    [status |-> "ARCHIVED", Size |-> 0, Checksum |-> NoSum,
     DecryptedSize |-> 0, DecryptedChecksum |-> NoSum]

\* db.MarkCompleted(file, fileID) on the followed record
MarkCompleted(rec, info, fileID) ==
    IF fileID = TrackedFileID
    THEN [status            |-> Forward(rec.status, "COMPLETED"),
          Size              |-> info.Size,
          Checksum          |-> Sum("sha256", info.Checksum),
          DecryptedSize     |-> info.DecryptedSize,
          DecryptedChecksum |-> Sum("sha256", info.DecryptedChecksum)]
    ELSE rec

\* db.MarkReady(accessionID, user, filepath, checksum) on the followed record
MarkReady(rec, accessionID, user, path, checksum) ==
    IF user = "alice" /\ path = "f.txt"
    THEN [rec EXCEPT !.status = Forward(@, "READY")]
    ELSE rec

(***************************************************************************)
(* The verify pipeline (lines 667-707): the stored header and the archived *)
(* body are read through io.MultiReader, the body through an io.TeeReader  *)
(* into archiveFileHash, decrypted by the Crypt4GH reader, and the         *)
(* plaintext is copied through a second TeeReader into the two digests.    *)
(***************************************************************************)
\* the header db.GetHeader returns (bytes that are not body bytes)
Header == <<2, 3>>

\* the bytes of a Crypt4GH body that are not plaintext (nonce and MAC of a
\* data block), taken here as one leading byte
SegmentOverhead == 1

\* a hash that keeps what an earlier iteration wrote to it
NewHash_Reused == archiveFileHash

\* sha256.New(): nothing written yet
NewHash == <<>>

\* io.MultiReader(hr, r): the bytes of hr, then those of r
MultiReader(hr, r) == hr \o r

\* a tee placed around the whole stream, header included
TeeInput_WholeStream(hr, f) == hr \o f

\* line 688: the reader that io.TeeReader wraps is f, the archived body
TeeInput(hr, f) == f

\* io.TeeReader(r, w): what w holds after the first n bytes of r were read
TeeReader(r, w, n) == w \o SubSeq(r, 1, n)

\* the plaintext of a body: the data block without its overhead, deciphered
Decrypt(body) ==
    IF Len(body) <= SegmentOverhead THEN <<>>
    ELSE [i \in 1..(Len(body) - SegmentOverhead) |->
              1 - body[i + SegmentOverhead]]

\* streaming.NewCrypt4GHReader(mr, key, nil): the reader takes the header
\* off the front of the stream and yields the plaintext of the rest
Crypt4GHReader(mr) == Decrypt(SubSeq(mr, Len(Header) + 1, Len(mr)))

\* the numbers of body bytes that may have been read from the archive when
\* the copy fails after n bytes of plaintext: at least those the n bytes
\* were decrypted from (none when the first Read fails), at most the body
BodyRead(body, n) ==
    (IF n = 0 THEN 0 ELSE SegmentOverhead + n)..Len(body)

(***************************************************************************)
(* Paths of the PosixBackend (storage.go, lines 50-81).  A path is the     *)
(* sequence of its elements; Location is rooted, the caller's path is      *)
(* relative.                                                               *)
(***************************************************************************)
\* the longest relative path a caller provides
MaxPathLen == 3

\* the elements a caller's path is made of
Elements == {"a", ".", ".."}

RelPaths == UNION {[1..n -> Elements] : n \in 0..MaxPathLen}

\* conf.Location: rooted directories, one of them not in its shortest form
Locations == {<<"data">>, <<"data", "archive">>, <<"data", ".", "archive">>}

\* filepath.Clean on a rooted path, element by element: "." is dropped, ".."
\* removes the element before it, and a ".." at the root is dropped
RECURSIVE CleanFrom(_, _, _)
CleanFrom(path, i, out) ==
    IF i > Len(path) THEN out
    ELSE CleanFrom(path, i + 1,
            CASE path[i] = "."  -> out
              [] path[i] = ".." -> IF out = <<>> THEN out
                                   ELSE SubSeq(out, 1, Len(out) - 1)
              [] OTHER          -> Append(out, path[i]))

Clean(path) == CleanFrom(path, 1, <<>>)

\* filepath.Join(a, b): the elements of both, cleaned
Join(a, b) == Clean(a \o b)

\* lines 52, 63, 74: filepath.Join(filepath.Clean(pb.Location), filePath)
PosixPath(loc, rel) == Join(Clean(loc), rel)

\* path p is dir or lies below it
Under(dir, p) == Len(p) >= Len(dir) /\ SubSeq(p, 1, Len(dir)) = dir

\* no file system access yet
NoAccess == [op |-> "none", filePath |-> <<>>, path |-> <<>>]

\* what a call of op with the caller's path rel leaves in accessed
Access(op, loc, rel) ==
    [op |-> op, filePath |-> rel, path |-> PosixPath(loc, rel)]

\* a PosixBackend call leaves these alone
beside == <<variant, proc, connLost, pc, count, delivered, message, calls, pending,
            history, checksumSha256, filePath, fileSize, copiedSize,
            completeMsg, file, dest, fileInfo, source, backup, content,
            upload, record, archiveFileHash, orphans, location>>

\* the elements of a path the messages carry: a file name, which holds no
\* separator
PathOf(name) == <<name>>

\* what a call of op with path rel on a backend of the given kind does to
\* the file system: a PosixBackend opens or stats the joined path, whether
\* or not that succeeds; an S3Backend touches no file
BackendAccess(kind, op, rel) ==
    accessed' = IF kind = "posix" THEN Access(op, location, rel) ELSE accessed

\* line 52: os.Open
PosixOpen ==
    /\ \E p \in RelPaths : accessed' = Access("NewFileReader", location, p)
    /\ UNCHANGED beside

\* line 63: os.OpenFile
PosixOpenFile ==
    /\ \E p \in RelPaths : accessed' = Access("NewFileWriter", location, p)
    /\ UNCHANGED beside

\* line 74: os.Stat
PosixStat ==
    /\ \E p \in RelPaths : accessed' = Access("GetFileSize", location, p)
    /\ UNCHANGED beside

Init ==
    /\ variant \in Variants
    /\ proc = "running"
    /\ connLost = FALSE
    /\ pc = "receive"
    /\ count = 0
    /\ delivered = NoBody
    /\ message = IF variant = "verify" THEN ZeroMessage ELSE ZeroSync
    /\ calls = <<>>
    /\ pending = <<>>
    /\ history = <<>>
    /\ checksumSha256 = ""
    /\ filePath = <<>>
    /\ fileSize = 0
    /\ copiedSize = 0
    /\ completeMsg = NoBody
    /\ file = "nil"
    /\ dest = "nil"
    /\ fileInfo = ZeroFileInfo
    /\ source \in Kinds
    /\ backup \in IF variant = "verify" THEN {"posix"} ELSE Kinds
    \* the copy-workers read neither the archived body nor the sizes and
    \* checksums recorded for it: their runs are given the empty body
    /\ content \in IF variant = "verify" THEN Contents ELSE {<<>>}
    /\ upload = "none"
    /\ orphans = 0
    /\ record = InitialRecord
    /\ archiveFileHash = <<>>
    /\ location = <<"data", "archive">>
    /\ accessed = NoAccess

\* "for delivered := range messages": the loop takes the next delivery;
\* the variables declared inside the loop body start afresh.  Nothing
\* waits for the upload goroutine that S3Backend.NewFileWriter started for
\* the delivery before: if it has not returned, it runs on beside the new
\* loop body, with no writer in hand for it any more
NextDelivery(b) ==
    /\ proc = "running"
    /\ pc = "receive"
    /\ count < MaxDeliveries
    /\ delivered' = b
    /\ count' = count + 1
    /\ history' = IF count = 0 THEN history
                  ELSE Append(history, Resolution(calls))
    /\ calls' = <<>>
    /\ pending' = <<>>
    /\ checksumSha256' = ""
    /\ filePath' = <<>>
    /\ fileSize' = 0
    /\ copiedSize' = 0
    /\ completeMsg' = NoBody
    /\ file' = "nil"
    /\ dest' = "nil"
    /\ fileInfo' = ZeroFileInfo
    /\ upload' = "none"
    /\ orphans' = IF upload = "running" THEN orphans + 1 ELSE orphans
    /\ pc' = "validate"
    /\ UNCHANGED <<variant, proc, connLost, source, backup, content, record,
                   archiveFileHash, location, accessed>>

\* a branch that ends the loop body ("continue", or its last statement)
\* after making the calls cs one after the other: the step makes the first,
\* and the others are left for the steps that follow; once none is left the
\* loop is back at its range clause
Continue(cs) ==
    /\ calls' = IF cs = <<>> THEN calls ELSE Append(calls, Head(cs))
    /\ pending' = IF cs = <<>> THEN <<>> ELSE Tail(cs)
    /\ pc' = IF Len(cs) > 1 THEN "pending" ELSE "receive"

\* the step goes on to the statement at label next
Goto(cs, next) ==
    /\ calls' = calls \o cs
    /\ pending' = <<>>
    /\ pc' = next

At(v, label) == proc = "running" /\ variant = v /\ pc = label

\* the broker connection drops; this may happen at any step of the loop
ConnectionLost ==
    /\ proc = "running"
    /\ ~connLost
    /\ connLost' = TRUE
    /\ UNCHANGED <<variant, proc, pc, count, delivered, message, calls, pending,
                   history, checksumSha256, filePath, fileSize, copiedSize,
                   completeMsg, file, dest, fileInfo, source, backup,
                   content, upload, record, archiveFileHash, orphans, location,
                   accessed>>

\* a watcher that logs the connection error and returns without exiting
WatcherOutcome_LogOnly == "running"

\* line 62: os.Exit(1)
WatcherOutcome == "exited"

\* go func() { connError := mq.ConnectionWatcher(); log.Error(connError);
\* os.Exit(1) }(): mq.ConnectionWatcher() returns once the connection is
\* lost, and the goroutine ends the process
ConnectionWatcher ==
    /\ proc = "running"
    /\ connLost
    /\ proc' = WatcherOutcome
    /\ UNCHANGED <<variant, connLost, pc, count, delivered, message, calls, pending, history,
                   checksumSha256, filePath, fileSize, copiedSize,
                   completeMsg, file, dest, fileInfo, source, backup,
                   content, upload, record, archiveFileHash, orphans, location,
                   accessed>>

(***************************************************************************)
(* mq.ValidateJSON(&delivered, schema, body, dest) belongs to              *)
(* internal/broker, which is not among the sources.  Its callers only      *)
(* "continue" when it fails and leave the rejection to it, so it is taken  *)
(* to do what the worker's rejection rule asks: negative-acknowledge the   *)
(* delivery without requeue and publish once to the error channel.         *)
(***************************************************************************)
(***************************************************************************)
(* src/internal/storage/storage.go.  ok says whether the backend call      *)
(* behind the operation (os.Open, os.OpenFile, GetObject) succeeds.  The   *)
(* result is the pair returned: the stream ("nil" for a nil stream) and    *)
(* the error ("ok" for a nil error).                                       *)
(***************************************************************************)
\* func (pb *PosixBackend) NewFileReader, lines 50-59
PosixNewFileReader(ok) ==
    IF ok THEN [stream |-> "open", res |-> "ok"]
    ELSE [stream |-> "nil", res |-> "error"]

\* func (sb *S3Backend) NewFileReader, lines 133-145: a GetObject error is
\* logged, and r.Body (nil when GetObject failed) is returned with a nil
\* error
S3NewFileReader(ok) ==
    [stream |-> IF ok THEN "open" ELSE "nil", res |-> "ok"]

\* Backend.NewFileReader of the configured implementation
NewFileReader(kind, ok) ==
    IF kind = "posix" THEN PosixNewFileReader(ok) ELSE S3NewFileReader(ok)

\* func (pb *PosixBackend) NewFileWriter, lines 61-70
PosixNewFileWriter(ok) ==
    IF ok THEN [stream |-> "open", res |-> "ok", upload |-> "none"]
    ELSE [stream |-> "nil", res |-> "error", upload |-> "none"]

\* func (sb *S3Backend) NewFileWriter, lines 147-162: the write end of an
\* io.Pipe, whose read end a new goroutine hands to Uploader.Upload; the
\* error is always nil
S3NewFileWriter(ok) ==
    [stream |-> "open", res |-> "ok", upload |-> "running"]

\* Backend.NewFileWriter of the configured implementation
NewFileWriter(kind, ok) ==
    IF kind = "posix" THEN PosixNewFileWriter(ok) ELSE S3NewFileWriter(ok)

\* what Close() of the writer returns: (*os.File).Close for the POSIX
\* writer; for the S3 writer (*io.PipeWriter).Close, which returns nil
\* whatever the read end was closed with
WriterClose(kind, up) == "ok"

\* io.Copy into the writer can transfer n bytes and return res: once the
\* upload goroutine has called reader.CloseWithError(err) (line 158) every
\* Write to the pipe fails with err, so no byte gets through
CopyPossible(up, n, res) == up = "failed" => n = 0

\* lines 150-160, the upload goroutine: Upload fails and the read end of
\* the pipe is closed with the error
S3UploadFails ==
    /\ proc = "running"
    /\ upload = "running"
    /\ upload' = "failed"
    /\ UNCHANGED <<variant, proc, connLost, pc, count, delivered, message,
                   calls, pending, history, checksumSha256, filePath, fileSize,
                   copiedSize, completeMsg, file, dest, fileInfo, source,
                   backup, content, record, archiveFileHash, orphans, location,
                   accessed>>

\* lines 150-160, the upload goroutine: Upload has read the pipe to its end
\* (the writer was closed) and returns without error
S3UploadDone ==
    /\ proc = "running"
    /\ upload = "running"
    /\ dest = "closed"
    /\ upload' = "done"
    /\ UNCHANGED <<variant, proc, connLost, pc, count, delivered, message,
                   calls, pending, history, checksumSha256, filePath, fileSize,
                   copiedSize, completeMsg, file, dest, fileInfo, source,
                   backup, content, record, archiveFileHash, orphans, location,
                   accessed>>

\* lines 150-160: the upload goroutine of an earlier delivery returns; its
\* Upload has failed, or has read the pipe to the end its writer's Close
\* made; nothing reads the outcome
OrphanUploadReturns ==
    /\ proc = "running"
    /\ orphans > 0
    /\ orphans' = orphans - 1
    /\ UNCHANGED <<variant, proc, connLost, pc, count, delivered, message,
                   calls, pending, history, checksumSha256, filePath, fileSize,
                   copiedSize, completeMsg, file, dest, fileInfo, source,
                   backup, content, upload, record, archiveFileHash, location,
                   accessed>>

\* a call of the storage backend as recorded in calls: key tells what the
\* backend did ("failed" when its call failed), res is the error returned
BackendCall(op, key, res) == [Call(op, res) EXCEPT !.key = key]

Opened(ok) == IF ok THEN "opened" ELSE "failed"

\* reading from the nil stream that S3Backend.NewFileReader returned for a
\* failed GetObject is a nil dereference: the goroutine panics
NilReaderOutcome == "panicked"

\* the branch in hand makes its next call; after the last one the loop body
\* ends
NextPending ==
    /\ pending # <<>>
    /\ calls' = Append(calls, Head(pending))
    /\ pending' = Tail(pending)
    /\ pc' = IF Len(pending) > 1 THEN "pending" ELSE "receive"

ValidateJSONRejects == <<Nack(FALSE), SendJSONError>>

\* the worker steps leave these alone
ctl == <<variant, connLost, count, delivered, history, source, backup, content,
         location, orphans>>

\* nor, but for the steps that say otherwise, these
aux == <<upload, record, archiveFileHash, accessed>>

(***************************************************************************)
(* sync, archive-to-backup (lines 1-304)                                   *)
(***************************************************************************)
\* db.GetArchived's answer for a file: where the archive holds it
ArchivedAt(m) == <<m.User, m.Filepath>>

ArchiveReceive ==
    /\ variant = "archive"
    /\ \E b \in SyncBodies : NextDelivery(b)
    /\ UNCHANGED message

\* lines 80-113: validate, decode into the message declared before the loop,
\* pick the sha256 checksum
ArchiveValidateJSON ==
    /\ At("archive", "validate")
    /\ IF BrokerVerdict("ingestion-accession", delivered) = "invalid"
       THEN /\ Continue(ValidateJSONRejects)
            /\ UNCHANGED <<message, checksumSha256>>
       ELSE /\ message' = UnmarshalSync(delivered.obj, message)
            /\ checksumSha256' = Sha256Of(message'.DecryptedChecksums)
            /\ Goto(<<>>, "GetArchived")
    /\ UNCHANGED <<ctl, aux, proc, filePath, fileSize, copiedSize, completeMsg,
                   file, dest, fileInfo>>

\* a failed lookup dropped instead of requeued
ArchiveOnGetArchivedError_Drop == <<Nack(FALSE)>>

\* lines 131-146: what the loop does with the delivery when GetArchived fails
ArchiveOnGetArchivedError == <<Nack(TRUE)>>

\* lines 115-147
ArchiveGetArchived ==
    /\ At("archive", "GetArchived")
    /\ \E res \in {"ok", "NotFound", "error"}, size \in Sizes :
          IF res = "ok"
          THEN /\ filePath' = ArchivedAt(message)
               /\ fileSize' = size
               /\ Goto(<<Call("GetArchived", res)>>, "NewFileReader")
          ELSE /\ Continue(<<Call("GetArchived", res)>> \o ArchiveOnGetArchivedError)
               /\ UNCHANGED <<filePath, fileSize>>
    /\ UNCHANGED <<ctl, aux, proc, message, checksumSha256, copiedSize,
                   completeMsg, file, dest, fileInfo>>

\* lines 165-180
ArchiveOnNewFileReaderError == <<Nack(TRUE)>>

\* lines 149-181
ArchiveNewFileReader ==
    /\ At("archive", "NewFileReader")
    /\ BackendAccess(source, "NewFileReader", filePath)
    /\ \E ok \in BOOLEAN :
          LET r == NewFileReader(source, ok) IN
          IF r.res = "ok"
          THEN /\ file' = r.stream
               /\ Goto(<<BackendCall("NewFileReader", Opened(ok), r.res)>>,
                       "NewFileWriter")
          ELSE /\ Continue(<<BackendCall("NewFileReader", Opened(ok), r.res)>>
                           \o ArchiveOnNewFileReaderError)
               /\ UNCHANGED file
    /\ UNCHANGED <<ctl, upload, record, archiveFileHash, proc, message, checksumSha256, filePath, fileSize,
                   copiedSize, completeMsg, dest, fileInfo>>

\* lines 198-213
ArchiveOnNewFileWriterError == <<Nack(TRUE)>>

\* lines 183-214
ArchiveNewFileWriter ==
    /\ At("archive", "NewFileWriter")
    /\ BackendAccess(backup, "NewFileWriter", filePath)
    /\ \E ok \in BOOLEAN :
          LET w == NewFileWriter(backup, ok) IN
          IF w.res = "ok"
          THEN /\ dest' = w.stream
               /\ upload' = w.upload
               /\ Goto(<<BackendCall("NewFileWriter", Opened(ok), w.res)>>,
                       "Copy")
          ELSE /\ Continue(<<BackendCall("NewFileWriter", Opened(ok), w.res)>>
                           \o ArchiveOnNewFileWriterError)
               /\ UNCHANGED <<dest, upload>>
    /\ UNCHANGED <<ctl, record, archiveFileHash, proc, message,
                   checksumSha256, filePath, fileSize, copiedSize,
                   completeMsg, file, fileInfo>>

\* line 218: err != nil || copiedSize != int64(fileSize)
ArchiveCopyFailed(res, n, size) == res # "ok" \/ n # size

\* lines 232-247
ArchiveOnCopyError == <<Nack(TRUE)>>

\* lines 216-248: io.Copy(dest, file) transfers n bytes and returns res
ArchiveCopy ==
    /\ At("archive", "Copy")
    /\ IF file = "nil"
       THEN /\ calls' = Append(calls, BackendCall("Copy", upload, "panic"))
            /\ proc' = NilReaderOutcome
            /\ UNCHANGED <<pc, pending, copiedSize>>
       ELSE /\ \E n \in Sizes, res \in Results :
                  /\ CopyPossible(upload, n, res)
                  /\ copiedSize' = n
                  /\ IF ArchiveCopyFailed(res, n, fileSize)
                     THEN Continue(<<BackendCall("Copy", upload, res)>>
                                   \o ArchiveOnCopyError)
                     ELSE Goto(<<BackendCall("Copy", upload, res)>>, "Close")
            /\ UNCHANGED proc
    /\ UNCHANGED <<ctl, aux, message, checksumSha256, filePath, fileSize,
                   completeMsg, file, dest, fileInfo>>

\* line 250: file.Close()
ArchiveClose ==
    /\ At("archive", "Close")
    /\ file' = "closed"
    /\ Goto(<<>>, "CloseDest")
    /\ UNCHANGED <<ctl, aux, proc, message, checksumSha256, filePath, fileSize,
                   copiedSize, completeMsg, dest, fileInfo>>

\* line 251: dest.Close()
ArchiveCloseDest ==
    /\ At("archive", "CloseDest")
    /\ dest' = "closed"
    /\ Goto(<<BackendCall("Close", upload, WriterClose(backup, upload))>>,
            "SendMessage")
    /\ UNCHANGED <<ctl, aux, proc, message, checksumSha256, filePath, fileSize,
                   copiedSize, completeMsg, file, fileInfo>>

\* lines 280-281: "Restart loop, do not ack"
ArchiveAfterSendError == "receive"

\* lines 265-282: the body published is the inbound body
ArchiveSendMessage ==
    /\ At("archive", "SendMessage")
    /\ completeMsg' = delivered
    /\ \E res \in Results :
          Goto(<<SendMessage("RoutingKey", delivered, res)>>,
               IF res = "ok" THEN "Ack" ELSE ArchiveAfterSendError)
    /\ UNCHANGED <<ctl, aux, proc, message, checksumSha256, filePath, fileSize,
                   copiedSize, file, dest, fileInfo>>

\* lines 284-300
ArchiveAck ==
    /\ At("archive", "Ack")
    /\ Continue(<<Ack>>)
    /\ UNCHANGED <<ctl, aux, proc, message, checksumSha256, filePath, fileSize,
                   copiedSize, completeMsg, file, dest, fileInfo>>

\* lines 132, 166, 199, 233, and the calls inside mq.ValidateJSON: the next
\* call of a branch that ends the loop body
ArchivePending ==
    /\ At("archive", "pending")
    /\ NextPending
    /\ UNCHANGED <<ctl, aux, proc, message, checksumSha256, filePath, fileSize,
                   copiedSize, completeMsg, file, dest, fileInfo>>

ArchiveNext ==
    \/ ArchiveReceive
    \/ ArchiveValidateJSON
    \/ ArchiveGetArchived
    \/ ArchiveNewFileReader
    \/ ArchiveNewFileWriter
    \/ ArchiveCopy
    \/ ArchiveClose
    \/ ArchiveCloseDest
    \/ ArchiveSendMessage
    \/ ArchiveAck
    \/ ArchivePending

(***************************************************************************)
(* sync, inbox-to-backup (lines 306-539)                                   *)
(***************************************************************************)
InboxReceive ==
    /\ variant = "inbox"
    /\ \E b \in SyncBodies : NextDelivery(b)
    /\ UNCHANGED message

\* lines 397-406 and 448-456: validateJSON returned an error
InboxOnValidateError == <<Nack(FALSE), SendJSONError>>

\* lines 412-413 and 462-463: the calls made for a schema-invalid message
\* before line 417 (466) evaluates err.Error() with err == nil
InboxOnInvalid == <<Nack(FALSE)>>

\* lines 417 and 466: err.Error() on the nil error is a nil dereference; the
\* goroutine panics and the process dies before SendJSONError is called
InboxInvalidOutcome == "panicked"

\* the three branches taken on validateJSON's result r
InboxValidated(r, next) ==
    CASE r = "err"     -> Continue(InboxOnValidateError) /\ UNCHANGED proc
      [] r = "invalid" -> /\ calls' = calls \o InboxOnInvalid
                          /\ proc' = InboxInvalidOutcome
                          /\ pending' = <<>>
                          /\ IF InboxInvalidOutcome = "running"
                             THEN pc' = "receive" ELSE UNCHANGED pc
      [] r = "valid"   -> Goto(<<>>, next) /\ UNCHANGED proc

\* lines 393-422
InboxValidateJSON ==
    /\ At("inbox", "validate")
    /\ \E schemaLoads \in BOOLEAN :
          InboxValidated(validateJSON(delivered, schemaLoads), "completed")
    /\ UNCHANGED <<ctl, aux, message, checksumSha256, filePath, fileSize,
                   copiedSize, completeMsg, file, dest, fileInfo>>

\* lines 424-471: decode into the message declared before the loop, pick the
\* sha256 checksum, build and validate the completion message
InboxCompleted ==
    /\ At("inbox", "completed")
    /\ message' = UnmarshalSync(delivered.obj, message)
    /\ checksumSha256' = Sha256Of(message'.DecryptedChecksums)
    /\ completeMsg' = MarshalCompleted(message')
    /\ \E schemaLoads \in BOOLEAN :
          InboxValidated(validateJSON(completeMsg', schemaLoads), "NewFileReader")
    /\ UNCHANGED <<ctl, aux, filePath, fileSize, copiedSize, file, dest, fileInfo>>

\* lines 475-478: log and continue
InboxOnNewFileReaderError == <<>>

\* lines 473-478
InboxNewFileReader ==
    /\ At("inbox", "NewFileReader")
    /\ BackendAccess(source, "NewFileReader", PathOf(message.Filepath))
    /\ \E ok \in BOOLEAN :
          LET r == NewFileReader(source, ok) IN
          IF r.res = "ok"
          THEN /\ file' = r.stream
               /\ Goto(<<BackendCall("NewFileReader", Opened(ok), r.res)>>,
                       "NewFileWriter")
          ELSE /\ Continue(<<BackendCall("NewFileReader", Opened(ok), r.res)>>
                           \o InboxOnNewFileReaderError)
               /\ UNCHANGED file
    /\ UNCHANGED <<ctl, upload, record, archiveFileHash, proc, message, checksumSha256, filePath, fileSize,
                   copiedSize, completeMsg, dest, fileInfo>>

\* lines 481-484: log and continue
InboxOnNewFileWriterError == <<>>

\* lines 480-484
InboxNewFileWriter ==
    /\ At("inbox", "NewFileWriter")
    /\ BackendAccess(backup, "NewFileWriter", PathOf(message.Filepath))
    /\ \E ok \in BOOLEAN :
          LET w == NewFileWriter(backup, ok) IN
          IF w.res = "ok"
          THEN /\ dest' = w.stream
               /\ upload' = w.upload
               /\ Goto(<<BackendCall("NewFileWriter", Opened(ok), w.res)>>,
                       "Copy")
          ELSE /\ Continue(<<BackendCall("NewFileWriter", Opened(ok), w.res)>>
                           \o InboxOnNewFileWriterError)
               /\ UNCHANGED <<dest, upload>>
    /\ UNCHANGED <<ctl, record, archiveFileHash, proc, message,
                   checksumSha256, filePath, fileSize, copiedSize,
                   completeMsg, file, fileInfo>>

\* line 486-487: "_, err = io.Copy(dest, file); if err != nil": the byte
\* count is discarded
InboxCopyFailed(res, n, size) == res # "ok"

\* line 488: log.Fatal(err) ends the process
InboxCopyErrorOutcome == "exited"

\* lines 486-489.  size is the recorded size of the source file, which this
\* variant never looks up; n is the number of bytes io.Copy transferred
InboxCopy ==
    /\ At("inbox", "Copy")
    /\ IF file = "nil"
       THEN /\ calls' = Append(calls, BackendCall("Copy", upload, "panic"))
            /\ proc' = NilReaderOutcome
            /\ UNCHANGED <<pc, pending, copiedSize, fileSize>>
       ELSE \E size \in Sizes, n \in Sizes, res \in Results :
               /\ CopyPossible(upload, n, res)
               /\ fileSize' = size
               /\ copiedSize' = n
               /\ IF InboxCopyFailed(res, n, size)
                  THEN /\ calls' = Append(calls, BackendCall("Copy", upload, res))
                       /\ proc' = InboxCopyErrorOutcome
                       /\ UNCHANGED <<pc, pending>>
                  ELSE /\ Goto(<<BackendCall("Copy", upload, res)>>, "Close")
                       /\ UNCHANGED proc
    /\ UNCHANGED <<ctl, aux, message, checksumSha256, filePath, completeMsg,
                   file, dest, fileInfo>>

\* line 491: file.Close()
InboxClose ==
    /\ At("inbox", "Close")
    /\ file' = "closed"
    /\ Goto(<<>>, "CloseDest")
    /\ UNCHANGED <<ctl, aux, proc, message, checksumSha256, filePath, fileSize,
                   copiedSize, completeMsg, dest, fileInfo>>

\* line 492: dest.Close()
InboxCloseDest ==
    /\ At("inbox", "CloseDest")
    /\ dest' = "closed"
    /\ Goto(<<BackendCall("Close", upload, WriterClose(backup, upload))>>,
            "MarkReady")
    /\ UNCHANGED <<ctl, aux, proc, message, checksumSha256, filePath, fileSize,
                   copiedSize, completeMsg, file, fileInfo>>

\* the Nack of a failed MarkReady without its "continue": the loop body runs
\* on to the Ack
InboxOnMarkReadyError_NoContinue == <<Nack(TRUE), Ack>>

\* lines 498-502
InboxOnMarkReadyError == <<Nack(TRUE)>>

\* lines 495-504
InboxMarkReady ==
    /\ At("inbox", "MarkReady")
    /\ \E res \in Results :
          IF res = "ok"
          THEN /\ record' = MarkReady(record, message.AccessionID,
                                      message.User, message.Filepath,
                                      checksumSha256)
               /\ Goto(<<BackendCall("MarkReady", record.status, res)>>,
                       "SendMessage")
          ELSE /\ Continue(<<BackendCall("MarkReady", record.status, res)>>
                           \o InboxOnMarkReadyError)
               /\ UNCHANGED record
    /\ UNCHANGED <<ctl, upload, archiveFileHash, accessed, proc, message,
                   checksumSha256, filePath, fileSize, copiedSize,
                   completeMsg, file, dest, fileInfo>>

\* lines 506-509: a failed publish is logged and the loop body goes on
InboxAfterSendError == "Ack"

\* lines 506-509
InboxSendMessage ==
    /\ At("inbox", "SendMessage")
    /\ \E res \in Results :
          Goto(<<SendMessage("RoutingKey", completeMsg, res)>>,
               IF res = "ok" THEN "Ack" ELSE InboxAfterSendError)
    /\ UNCHANGED <<ctl, aux, proc, message, checksumSha256, filePath, fileSize,
                   copiedSize, completeMsg, file, dest, fileInfo>>

\* lines 511-513
InboxAck ==
    /\ At("inbox", "Ack")
    /\ Continue(<<Ack>>)
    /\ UNCHANGED <<ctl, aux, proc, message, checksumSha256, filePath, fileSize,
                   copiedSize, completeMsg, file, dest, fileInfo>>

\* lines 397-402, 448-452 and 499: the next call of a branch that ends the
\* loop body
InboxPending ==
    /\ At("inbox", "pending")
    /\ NextPending
    /\ UNCHANGED <<ctl, aux, proc, message, checksumSha256, filePath, fileSize,
                   copiedSize, completeMsg, file, dest, fileInfo>>

InboxNext ==
    \/ InboxReceive
    \/ InboxValidateJSON
    \/ InboxCompleted
    \/ InboxNewFileReader
    \/ InboxNewFileWriter
    \/ InboxCopy
    \/ InboxClose
    \/ InboxCloseDest
    \/ InboxMarkReady
    \/ InboxSendMessage
    \/ InboxAck
    \/ InboxPending

(***************************************************************************)
(* verify (lines 541-760)                                                  *)
(***************************************************************************)
\* json.Marshal(fileError) for broker.FileError{User, FilePath, Reason}
MarshalFileError(m) ==
    Json([user |-> m.User, filepath |-> m.FilePath, reason |-> "error"])

\* json.Marshal(&c) for type verified, lines 712-721
MarshalVerified(m, info) ==
    Json([user |-> m.User, filepath |-> m.FilePath,
          decrypted_checksums |->
              <<Checksum("sha256", Hex(Sum("sha256", info.DecryptedChecksum))),
                Checksum("md5", Hex(Sum("md5", info.DecryptedChecksum)))>>])

\* line 631: "var message message" is declared inside the loop body
VerifyReceive ==
    /\ variant = "verify"
    /\ \E b \in VerifyBodies : NextDelivery(b)
    /\ message' = ZeroMessage

\* lines 634-642
VerifyValidateJSON ==
    /\ At("verify", "validate")
    /\ IF BrokerVerdict("ingestion-verification", delivered) = "invalid"
       THEN /\ Continue(ValidateJSONRejects)
            /\ UNCHANGED message
       ELSE /\ message' = UnmarshalMessage(delivered.obj, message)
            /\ Goto(<<>>, "GetHeader")
    /\ UNCHANGED <<ctl, aux, proc, checksumSha256, filePath, fileSize,
                   copiedSize, completeMsg, file, dest, fileInfo>>

\* a failed header lookup requeued instead of dropped
VerifyOnGetHeaderError_Requeue(res) ==
    <<Nack(TRUE), SendMessage("RoutingError", delivered, res)>>

\* lines 647-655: Nack without requeue, then the body goes to the error
\* routing key (res is SendMessage's result, which is only logged)
VerifyOnGetHeaderError(res) ==
    <<Nack(FALSE), SendMessage("RoutingError", delivered, res)>>

\* lines 644-656
VerifyGetHeader ==
    /\ At("verify", "GetHeader")
    /\ \E res \in {"ok", "NotFound", "error"}, sent \in Results :
          IF res = "ok"
          THEN Goto(<<Call("GetHeader", res)>>, "GetFileSize")
          ELSE Continue(<<Call("GetHeader", res)>> \o VerifyOnGetHeaderError(sent))
    /\ UNCHANGED <<ctl, aux, proc, message, checksumSha256, filePath, fileSize,
                   copiedSize, completeMsg, file, dest, fileInfo>>

\* lines 662-665: log and continue
VerifyOnGetFileSizeError == <<>>

\* lines 658-665
VerifyGetFileSize ==
    /\ At("verify", "GetFileSize")
    /\ BackendAccess(source, "GetFileSize", PathOf(message.ArchivePath))
    /\ \E res \in Results :
          IF res = "ok"
          THEN /\ fileInfo' = [fileInfo EXCEPT !.Size = Len(content)]
               /\ Goto(<<Call("GetFileSize", res)>>, "NewFileReader")
          ELSE /\ fileInfo' = [fileInfo EXCEPT !.Size = 0]
               /\ Continue(<<Call("GetFileSize", res)>> \o VerifyOnGetFileSizeError)
    /\ UNCHANGED <<ctl, upload, record, archiveFileHash, proc, message, checksumSha256, filePath, fileSize,
                   copiedSize, completeMsg, file, dest>>

\* lines 671-683: a FileError goes to the error routing key; no Nack
VerifyOnNewFileReaderError(res) ==
    <<SendMessage("RoutingError", MarshalFileError(message), res)>>

\* lines 667-684
VerifyNewFileReader ==
    /\ At("verify", "NewFileReader")
    /\ BackendAccess(source, "NewFileReader", PathOf(message.ArchivePath))
    /\ archiveFileHash' = NewHash
    /\ \E ok \in BOOLEAN, sent \in Results :
          LET r == NewFileReader(source, ok) IN
          IF r.res = "ok"
          THEN /\ file' = r.stream
               /\ Goto(<<BackendCall("NewFileReader", Opened(ok), r.res)>>,
                       "NewCrypt4GHReader")
          ELSE /\ Continue(<<BackendCall("NewFileReader", Opened(ok), r.res)>>
                           \o VerifyOnNewFileReaderError(sent))
               /\ UNCHANGED file
    /\ UNCHANGED <<ctl, upload, record, proc, message, checksumSha256,
                   filePath, fileSize, copiedSize, completeMsg, dest, fileInfo>>

\* a failed decryption requeued instead of dropped
VerifyOnDecryptError_Requeue == <<Nack(TRUE)>>

\* lines 691-694 and 701-704: log and continue
VerifyOnDecryptError == <<>>

\* lines 686-694: streaming.NewCrypt4GHReader over header and body
VerifyNewCrypt4GHReader ==
    /\ At("verify", "NewCrypt4GHReader")
    /\ \E res \in Results :
          IF res = "ok"
          THEN Goto(<<Call("NewCrypt4GHReader", res)>>, "Copy")
          ELSE Continue(<<Call("NewCrypt4GHReader", res)>> \o VerifyOnDecryptError)
    /\ UNCHANGED <<ctl, aux, proc, message, checksumSha256, filePath, fileSize,
                   copiedSize, completeMsg, file, dest, fileInfo>>

\* lines 696-707: io.Copy(sha256hash, stream) drains the decrypted stream;
\* file.DecryptedSize is assigned whether or not it fails
VerifyCopy ==
    /\ At("verify", "Copy")
    /\ IF file = "nil"
       THEN /\ calls' = Append(calls, Call("Copy", "panic"))
            /\ proc' = NilReaderOutcome
            /\ UNCHANGED <<pc, pending, fileInfo, archiveFileHash>>
       ELSE /\ LET mr         == MultiReader(Header, content)
                   tee        == TeeInput(Header, content)
                   plain      == Crypt4GHReader(mr)
                   sha256hash == TeeReader(plain, NewHash, Len(plain))
               IN  \/ /\ archiveFileHash' =
                              TeeReader(tee, archiveFileHash, Len(tee))
                      /\ fileInfo' =
                            [fileInfo EXCEPT
                                !.DecryptedSize = Len(plain),
                                !.Checksum = archiveFileHash',
                                !.DecryptedChecksum = sha256hash]
                      /\ Goto(<<Call("Copy", "ok")>>, "verified")
                   \/ \E n \in 0..Len(plain) : \E read \in BodyRead(content, n) :
                         /\ archiveFileHash' =
                               TeeReader(tee, archiveFileHash, read)
                         /\ fileInfo' = [fileInfo EXCEPT !.DecryptedSize = n]
                         /\ Continue(<<Call("Copy", "error")>>
                                     \o VerifyOnDecryptError)
            /\ UNCHANGED proc
    /\ UNCHANGED <<ctl, upload, record, accessed, message, checksumSha256, filePath,
                   fileSize, copiedSize, completeMsg, file, dest>>

\* lines 710 and 755: with re_verify set the loop body ends here
VerifyOnReVerify == <<>>

\* lines 709-731
VerifyVerified ==
    /\ At("verify", "verified")
    /\ IF message.ReVerify
       THEN /\ Continue(VerifyOnReVerify)
            /\ UNCHANGED completeMsg
       ELSE /\ completeMsg' = MarshalVerified(message, fileInfo)
            /\ IF BrokerVerdict("ingestion-accession-request", completeMsg') = "invalid"
               THEN Continue(ValidateJSONRejects)
               ELSE Goto(<<>>, "MarkCompleted")
    /\ UNCHANGED <<ctl, aux, proc, message, checksumSha256, filePath, fileSize,
                   copiedSize, file, dest, fileInfo>>

\* lines 735-737: log and continue
VerifyOnMarkCompletedError == <<>>

\* lines 733-738
VerifyMarkCompleted ==
    /\ At("verify", "MarkCompleted")
    /\ \E res \in Results :
          IF res = "ok"
          THEN /\ record' = MarkCompleted(record, fileInfo, message.FileID)
               /\ Goto(<<BackendCall("MarkCompleted", record.status, res)>>,
                       "SendMessage")
          ELSE /\ Continue(<<BackendCall("MarkCompleted", record.status, res)>>
                           \o VerifyOnMarkCompletedError)
               /\ UNCHANGED record
    /\ UNCHANGED <<ctl, upload, archiveFileHash, accessed, proc, message,
                   checksumSha256, filePath, fileSize, copiedSize,
                   completeMsg, file, dest, fileInfo>>

\* lines 747-750: a failed publish is logged and the loop body goes on
VerifyAfterSendError == "Ack"

\* lines 743-750
VerifySendMessage ==
    /\ At("verify", "SendMessage")
    /\ \E res \in Results :
          Goto(<<SendMessage("RoutingKey", completeMsg, res)>>,
               IF res = "ok" THEN "Ack" ELSE VerifyAfterSendError)
    /\ UNCHANGED <<ctl, aux, proc, message, checksumSha256, filePath, fileSize,
                   copiedSize, completeMsg, file, dest, fileInfo>>

\* lines 751-753
VerifyAck ==
    /\ At("verify", "Ack")
    /\ Continue(<<Ack>>)
    /\ UNCHANGED <<ctl, aux, proc, message, checksumSha256, filePath, fileSize,
                   copiedSize, completeMsg, file, dest, fileInfo>>

\* lines 648-652 and 679, and the calls inside mq.ValidateJSON: the next
\* call of a branch that ends the loop body
VerifyPending ==
    /\ At("verify", "pending")
    /\ NextPending
    /\ UNCHANGED <<ctl, aux, proc, message, checksumSha256, filePath, fileSize,
                   copiedSize, completeMsg, file, dest, fileInfo>>

VerifyNext ==
    \/ VerifyReceive
    \/ VerifyValidateJSON
    \/ VerifyGetHeader
    \/ VerifyGetFileSize
    \/ VerifyNewFileReader
    \/ VerifyNewCrypt4GHReader
    \/ VerifyCopy
    \/ VerifyVerified
    \/ VerifyMarkCompleted
    \/ VerifySendMessage
    \/ VerifyAck
    \/ VerifyPending

\* the copy-worker, a separate process on the same database, calls
\* db.MarkReady (line 496) for a message it has validated, whatever the
\* status of the record; a failed call leaves the record as it was
CopyWorkerMarksReady ==
    /\ variant = "verify"
    /\ \E b \in SyncBodies, res \in Results :
          /\ validateJSON(b, TRUE) = "valid"
          /\ LET m == UnmarshalSync(b.obj, ZeroSync) IN
             record' = IF res = "ok"
                       THEN MarkReady(record, m.AccessionID, m.User,
                                      m.Filepath,
                                      Sha256Of(m.DecryptedChecksums))
                       ELSE record
    /\ UNCHANGED <<ctl, upload, archiveFileHash, accessed, proc, pc, message,
                   calls, pending, checksumSha256, filePath, fileSize,
                   copiedSize, completeMsg, file, dest, fileInfo>>

\* the FileInfo the verify-worker computes for an archived body
VerifiedInfo(body) ==
    [Size |-> Len(body), Checksum |-> body,
     DecryptedSize |-> Len(Decrypt(body)), DecryptedChecksum |-> Decrypt(body)]

\* the verify-worker, a separate process on the same database, calls
\* db.MarkCompleted (line 734) for a message it has verified, whatever the
\* status of the record; a failed call leaves the record as it was
VerifyWorkerMarksCompleted ==
    /\ variant = "inbox"
    /\ \E b \in VerifyBodies, res \in Results :
          /\ BrokerVerdict("ingestion-verification", b) = "valid"
          /\ LET m == UnmarshalMessage(b.obj, ZeroMessage) IN
             record' = IF res = "ok" /\ ~m.ReVerify
                       THEN MarkCompleted(record, VerifiedInfo(content),
                                          m.FileID)
                       ELSE record
    /\ UNCHANGED <<ctl, upload, archiveFileHash, accessed, proc, pc, message,
                   calls, pending, checksumSha256, filePath, fileSize,
                   copiedSize, completeMsg, file, dest, fileInfo>>

Next ==
    \/ ConnectionLost
    \/ ConnectionWatcher
    \/ S3UploadFails
    \/ S3UploadDone
    \/ OrphanUploadReturns
    \/ CopyWorkerMarksReady
    \/ VerifyWorkerMarksCompleted
    \/ ArchiveNext
    \/ InboxNext
    \/ VerifyNext

\* a PosixBackend on its own, given any root directory and called by any
\* caller
PathInit ==
    /\ variant = "archive"
    /\ proc = "running"
    /\ connLost = FALSE
    /\ pc = "receive"
    /\ count = 0
    /\ delivered = NoBody
    /\ message = ZeroSync
    /\ calls = <<>>
    /\ pending = <<>>
    /\ history = <<>>
    /\ checksumSha256 = ""
    /\ filePath = <<>>
    /\ fileSize = 0
    /\ copiedSize = 0
    /\ completeMsg = NoBody
    /\ file = "nil"
    /\ dest = "nil"
    /\ fileInfo = ZeroFileInfo
    /\ source = "posix"
    /\ backup = "posix"
    /\ content = <<>>
    /\ upload = "none"
    /\ orphans = 0
    /\ record = InitialRecord
    /\ archiveFileHash = <<>>
    /\ location \in Locations
    /\ accessed = NoAccess

PathNext ==
    \/ PosixOpen
    \/ PosixOpenFile
    \/ PosixStat

PathSpec == PathInit /\ [][PathNext]_vars

Spec == Init /\ [][Next]_vars

\* the Go scheduler runs a runnable goroutine: once ConnectionWatcher() has
\* returned, the watcher goroutine gets to call os.Exit
FairSpec == Spec /\ WF_vars(ConnectionWatcher)

\* the steps of the worker goroutine, whichever program runs
WorkerNext == ArchiveNext \/ InboxNext \/ VerifyNext

\* the scheduler also runs the worker goroutine whenever it can take a step:
\* a loop body that was started runs to its end, and a waiting delivery is
\* received
LiveSpec == FairSpec /\ WF_vars(WorkerNext)

(***************************************************************************)
(* Reading the calls made for the delivery in hand.                        *)
(***************************************************************************)
IsAck(c) == c.op = "Ack"

IsNack(c) == c.op = "Nack"

IsNackRequeue(c) == c.op = "Nack" /\ c.requeue

\* a publish to the downstream routing key
IsPublish(c) == c.op = "SendMessage" /\ c.key = "RoutingKey"

\* a publish to the error channel
IsErrorPublish(c) ==
    c.op = "SendJSONError" \/ (c.op = "SendMessage" /\ c.key = "RoutingError")

IsAnyPublish(c) == c.op \in {"SendMessage", "SendJSONError"}

IsPersist(c) == c.op \in {"MarkReady", "MarkCompleted"}

Acks == Len(SelectSeq(calls, IsAck))

Nacks == Len(SelectSeq(calls, IsNack))

NacksRequeue == Len(SelectSeq(calls, IsNackRequeue))

Publishes == Len(SelectSeq(calls, IsPublish))

ErrorPublishes == Len(SelectSeq(calls, IsErrorPublish))

AnyPublishes == Len(SelectSeq(calls, IsAnyPublish))

Persists == Len(SelectSeq(calls, IsPersist))

\* the call op was made for the delivery in hand and returned res
Returned(op, res) ==
    \E i \in 1..Len(calls) : calls[i].op = op /\ calls[i].res = res

\* the loop body has ended for the delivery in hand and the loop is back at
\* its range clause
IterationEnded == count > 0 /\ pc = "receive"

\* the branch the loop took has made all its calls: no call is outstanding
BranchDone == pc # "pending"

\* the inbound body fails the validation its worker applies to it
InboundInvalid ==
    CASE variant = "archive" ->
            BrokerVerdict("ingestion-accession", delivered) = "invalid"
      [] variant = "inbox" -> validateJSON(delivered, TRUE) # "valid"
      [] variant = "verify" ->
            BrokerVerdict("ingestion-verification", delivered) = "invalid"

CopyWorker == variant \in {"archive", "inbox"}

(***************************************************************************)
(* The claims.                                                             *)
(***************************************************************************)

\* C1 (as stated): whenever a worker loop is back at its range clause, the
\* delivery it has just handled was resolved exactly once, by one Ack or one
\* Nack.
C1_ResolvedExactlyOnce ==
    IterationEnded => Len(Resolution(calls)) = 1

\* C2 (as stated): once a worker has rejected an inbound message that fails
\* schema validation (the branch taken has made its calls), it has made no
\* Nack with requeue=true and no Ack for it, and exactly one publish to the
\* error channel.
C2_InvalidRejectedWithOneErrorPublish ==
    (count > 0 /\ InboundInvalid /\ calls # <<>> /\ BranchDone) =>
        /\ NacksRequeue = 0
        /\ Acks = 0
        /\ ErrorPublishes = 1

\* C3 (as stated): when MarkReady or MarkCompleted has failed for a
\* delivery and its loop body has ended, the worker has called
\* Nack(requeue=true) exactly once, and has neither published an outbound
\* message nor acknowledged it.
C3_PersistFailureRequeues ==
    (/\ Returned("MarkReady", "error") \/ Returned("MarkCompleted", "error")
     /\ IterationEnded) =>
        /\ NacksRequeue = 1
        /\ Nacks = 1
        /\ Publishes = 0
        /\ Acks = 0

\* C4 (as stated): Ack is called on a delivery only after its downstream
\* publish returned success.
C4_AckOnlyAfterPublishSucceeded ==
    \A i \in 1..Len(calls) :
        IsAck(calls[i]) =>
            \E j \in 1..(i - 1) : IsPublish(calls[j]) /\ calls[j].res = "ok"

\* C5 (as stated): a copy-worker acknowledges a delivery only if the bytes
\* copied equal the recorded source size; when they differ the delivery is
\* Nacked with requeue=true and neither published nor acknowledged.
C5_AckOnlyOnFullCopy ==
    (CopyWorker /\ IterationEnded /\ Returned("Copy", "ok")) =>
        /\ Acks > 0 => copiedSize = fileSize
        /\ copiedSize # fileSize =>
              NacksRequeue = 1 /\ Publishes = 0 /\ Acks = 0

\* the published completion message carries the inbound message's user,
\* filepath, accession id and decrypted checksums
SameFields(out, in) ==
    /\ out.json /\ in.json
    /\ \A k \in {"user", "filepath", "accession_id", "decrypted_checksums"} :
          k \in DOMAIN out.obj /\ k \in DOMAIN in.obj /\ out.obj[k] = in.obj[k]

\* the case of C6: a valid copy-work message, the archive lookup (where the
\* worker makes one) succeeded, the copy transferred the recorded number of
\* bytes, the publish succeeded, and the loop body has ended
C6_Case ==
    /\ CopyWorker
    /\ IterationEnded
    /\ ~InboundInvalid
    /\ variant = "archive" => Returned("GetArchived", "ok")
    /\ Returned("Copy", "ok")
    /\ copiedSize = fileSize
    /\ \E i \in 1..Len(calls) : IsPublish(calls[i]) /\ calls[i].res = "ok"

\* C6: in that case the copy-worker has published exactly one completion
\* message, carrying the inbound message's user, filepath, accession id and
\* decrypted checksums, has called Ack exactly once and never Nack.
C6_SuccessfulCopy ==
    C6_Case =>
        /\ Publishes = 1
        /\ AnyPublishes = 1
        /\ \A i \in 1..Len(calls) :
              IsPublish(calls[i]) => SameFields(calls[i].body, delivered)
        /\ Acks = 1
        /\ Nacks = 0

C6_Witness == C6_Case /\ variant = "inbox" /\ Acks = 1 /\ count > 1

\* C7: when GetArchived has returned NotFound for a validated message, the
\* worker goes on to nothing but the Nack: it makes no publish and no Ack
\* for the delivery, and once its loop body has ended it has called
\* Nack(requeue=true) exactly once.
C7_NotFoundRequeues ==
    Returned("GetArchived", "NotFound") =>
        /\ pc \in {"pending", "receive"}
        /\ AnyPublishes = 0
        /\ Acks = 0
        /\ IterationEnded => NacksRequeue = 1 /\ Nacks = 1

C7_Witness ==
    Returned("GetArchived", "NotFound") /\ IterationEnded /\ ~InboundInvalid

\* a backend I/O error during the unit of work: the file size, the source
\* reader, the destination writer, or the copy of the bytes
BackendIOError ==
    \/ Returned("GetFileSize", "error")
    \/ Returned("NewFileReader", "error")
    \/ Returned("NewFileWriter", "error")
    \/ CopyWorker /\ Returned("Copy", "error")

\* C8 (as stated): after a backend I/O error during the unit of work, once
\* the branch taken has made its calls, the worker has Nacked the delivery
\* with requeue=true and is back at its range clause, without persisting,
\* publishing downstream or acknowledging.
C8_IOErrorRequeues ==
    BackendIOError /\ BranchDone =>
        /\ NacksRequeue = 1
        /\ Nacks = 1
        /\ pc = "receive"
        /\ connLost \/ proc = "running"
        /\ Persists = 0
        /\ Publishes = 0
        /\ Acks = 0

\* the verify-worker's decryption failed: NewCrypt4GHReader failed, or
\* draining the decrypted stream returned an error
DecryptFailed ==
    /\ variant = "verify"
    /\ Returned("NewCrypt4GHReader", "error") \/ Returned("Copy", "error")

\* C9: when the verify-worker's decryption has failed, the message is
\* dropped: no MarkCompleted, no publish, no Ack and no Nack with
\* requeue=true, and the loop is back at its range clause.
C9_DecryptFailureAborts ==
    DecryptFailed =>
        /\ Persists = 0
        /\ AnyPublishes = 0
        /\ Acks = 0
        /\ NacksRequeue = 0
        /\ pc = "receive"

C9_Witness ==
    DecryptFailed /\ Returned("Copy", "error") /\ IterationEnded

\* C10 (as stated): the worker process terminates only on broker connection
\* loss.
C10_ExitsOnlyOnConnectionLoss ==
    proc # "running" => connLost

\* C11: the watcher runs beside the worker loop, and once the broker
\* connection is lost the process eventually terminates, whatever step the
\* loop is at.
C11_ConnectionLossTerminates == connLost ~> (proc # "running")

\* the connection was lost and the process exited while a delivery was
\* being copied, before any Ack
C11_Witness ==
    connLost /\ proc = "exited" /\ pc = "Copy" /\ Acks = 0 /\ count > 0

\* the call op was made for the delivery in hand while the backend was in
\* state key (the outcome of the open, or the state of the upload task)
Made(op, key) ==
    \E i \in 1..Len(calls) : calls[i].op = op /\ calls[i].key = key

\* C12 (as stated): the caller's next call on the object-storage writer after
\* its background upload has failed returns that failure.  A Write does
\* (CopyPossible: no byte is accepted once the pipe's reader is closed with
\* the error); the case left is the Close that follows the last Write.
C12_UploadFailureSurfaced ==
    \A i \in 1..Len(calls) :
        backup = "s3" /\ calls[i].op = "Close" /\ calls[i].key = "failed"
        => calls[i].res = "error"

\* C13 (as stated): with an object-storage destination the copy-worker
\* publishes the completion message and acknowledges the delivery only after
\* the background upload has completed successfully.
C13_DurableBeforePublishAndAck ==
    CopyWorker /\ backup = "s3" /\ (Publishes > 0 \/ Acks > 0)
        => upload = "done"

\* C14 (as stated): when the loop is back at its range clause, no stream
\* opened for the delivery just processed is still open.
C14_StreamsClosedOnEveryExit ==
    IterationEnded => file # "open" /\ dest # "open"

\* C20 (as stated): for both backends a NewFileReader whose open failed
\* returns an error and no stream, and the worker does not go on to copy or
\* decrypt from that reader.
C20_FailedOpenReturnsError ==
    \A i \in 1..Len(calls) :
        calls[i].op = "NewFileReader" /\ calls[i].key = "failed"
        => /\ calls[i].res = "error"
           /\ file # "open"
           /\ pc \in {"pending", "receive"}

\* the body in hand has been decoded into message and the loop is working
\* on it
Decoded == pc \notin {"receive", "validate", "completed"}

\* C15 (as stated): the decoded message is a per-iteration value; once a
\* delivery is decoded, message holds what that delivery's body alone decodes
\* to, and no field decoded from an earlier delivery.
C15_MessagePerIteration ==
    Decoded =>
        message = IF variant = "verify"
                  THEN UnmarshalMessage(delivered.obj, ZeroMessage)
                  ELSE UnmarshalSync(delivered.obj, ZeroSync)

\* a persistence lookup of expected prior state returned not-found for the
\* delivery in hand
LookupNotFound ==
    \/ Returned("GetHeader", "NotFound")
    \/ Returned("GetArchived", "NotFound")

\* C19 (as stated): after a not-found lookup, in the verify-worker or in the
\* copy-worker, the delivery is never Acked, and once the loop body has
\* ended it was Nacked once without requeue.
C19_NotFoundDropped ==
    LookupNotFound =>
        /\ pc \in {"pending", "receive"}
        /\ Acks = 0
        /\ IterationEnded => Nacks = 1 /\ NacksRequeue = 0

\* C19 (amended): a not-found stored header makes the verify-worker drop the
\* delivery, Nacked once without requeue and never Acked; a not-found
\* archived location makes the copy-worker Nack it once with requeue, never
\* Acked.
C19_NotFoundDroppedByVerifyOnly ==
    LookupNotFound =>
        /\ pc \in {"pending", "receive"}
        /\ Acks = 0
        /\ IterationEnded =>
              /\ Nacks = 1
              /\ NacksRequeue = IF variant = "verify" THEN 0 ELSE 1

C19_Witness ==
    /\ Returned("GetHeader", "NotFound")
    /\ IterationEnded
    /\ Nacks = 1
    /\ ErrorPublishes + AnyPublishes > 0

\* the verify-worker marks the followed record completed when it is
\* COMPLETED already
ReMarkCompleted ==
    /\ At("verify", "MarkCompleted")
    /\ pc' = "SendMessage"
    /\ message.FileID = TrackedFileID
    /\ record.status = "COMPLETED"

\* C17: processing the same verify-work message again, against the same
\* archive contents and an already COMPLETED FileRecord, leaves the record
\* as the first processing left it: mark-file-completed is called with the
\* same sizes and checksums.
C17_ReprocessingIsIdempotent ==
    [][ReMarkCompleted => record' = record]_vars

\* the second of two deliveries of the message was marked completed on the
\* record the first had completed, for a body that holds plaintext
C17_Witness ==
    /\ variant = "verify"
    /\ count = 2
    /\ Made("MarkCompleted", "COMPLETED")
    /\ Returned("MarkCompleted", "ok")
    /\ message.FileID = TrackedFileID
    /\ record.status = "COMPLETED"
    /\ Len(Decrypt(content)) > 0

\* C18: once the decrypted stream was copied without error, the decrypted
\* size is the length of the plaintext, the decrypted sha256 is the digest
\* of the plaintext, and the encrypted checksum is the digest of the body
\* bytes, each once and in order, header excluded; the verified message
\* reports the digests of the plaintext.
C18_SizesAndChecksums ==
    variant = "verify" /\ Returned("Copy", "ok") =>
        /\ fileInfo.DecryptedSize = Len(Decrypt(content))
        /\ Sum("sha256", fileInfo.DecryptedChecksum)
               = Sum("sha256", Decrypt(content))
        /\ Sum("sha256", fileInfo.Checksum) = Sum("sha256", content)
        /\ pc \in {"MarkCompleted", "SendMessage", "Ack"} =>
               completeMsg = MarshalVerified(message, VerifiedInfo(content))

\* a body with plaintext was decrypted and its verified message built
C18_Witness ==
    /\ variant = "verify"
    /\ Returned("Copy", "ok")
    /\ pc = "SendMessage"
    /\ Len(Decrypt(content)) > 0
    /\ fileInfo.DecryptedSize < fileInfo.Size

\* C21 (as stated): whatever relative path the caller provides, the path a
\* PosixBackend call accesses is the root directory or lies below it.
C21_AccessConfinedToRoot ==
    accessed.op # "none" => Under(Clean(location), accessed.path)

\* C22 (as stated): a worker works on one delivery at a time: while it
\* works on a delivery, every processing step of the earlier ones has ended
\* (no upload goroutine started for one of them is still running) and each
\* of them was resolved by its Ack or Nack, so that no two deliveries are
\* in flight in the worker.
C22_OneDeliveryAtATime ==
    (count > 1 /\ pc # "receive") =>
        /\ orphans = 0
        /\ \A i \in 1..Len(history) : Len(history[i]) = 1

\* C23: no delivery is resolved more than once: the delivery in hand and
\* every earlier one has at most one Ack or Nack call in all.
C23_ResolvedAtMostOnce ==
    /\ Len(Resolution(calls)) <= 1
    /\ \A i \in 1..Len(history) : Len(history[i]) <= 1

\* a delivery was Nacked on a failure, the next one Acked
C23_Witness ==
    /\ count = 2
    /\ Len(history) = 1
    /\ Len(history[1]) = 1
    /\ IsNack(history[1][1])
    /\ Acks = 1
    /\ IterationEnded

\* the k-th delivery is in hand and has passed schema validation
ValidInHand(k) ==
    count = k /\ pc \in {"GetArchived", "NewFileReader", "GetHeader"}

\* the k-th delivery was acknowledged, or was Nacked with requeue=true and
\* so is redelivered by the broker
AckedOrRequeued(k) == count = k /\ (Acks = 1 \/ NacksRequeue = 1)

\* C24 (as stated): while the broker connection stays up, every schema-valid
\* work message a worker receives is eventually acknowledged or handed back
\* to the broker for redelivery (which, failures being transient, ends in
\* its acknowledgement); none is left unacknowledged and never redelivered.
C24_ValidEventuallyAcked ==
    ([]~connLost) =>
        \A k \in 1..MaxDeliveries : ValidInHand(k) ~> AckedOrRequeued(k)

====
